---- MODULE Spec2Model ----
(***************************************************************************)
(* The alertmanager event sink of heapster: severity filter, ignore list,  *)
(* dedup cache (an LRU with per-entry expiry), alert construction and      *)
(* delivery.  The repository holds three builds of package alertmanager;   *)
(* `variant` says which one a behaviour runs:                              *)
(*   "dedup"    src/unnamed/part_000 lines 1-216   (filter, ignore list,   *)
(*              dedup cache, one delivery per batch)                       *)
(*   "batch"    src/events/sinks/alertmanager/alertmanager.go              *)
(*              (filter, one delivery per batch)                           *)
(*   "perEvent" src/unnamed/part_000 lines 218-379 (filter, one delivery   *)
(*              per event)                                                 *)
(* SpecBuild is SinkFactory.BuildAll (src/events/sinks/factory.go), which  *)
(* constructs the sinks from their URI specifications.                     *)
(***************************************************************************)
EXTENDS Integers, Sequences, FiniteSets, TLC

\* ------------------------------------------------------------------ bounds
MaxBatch == 2      \* events in one batch
MaxCalls == 2      \* ExportEvents calls in one behaviour
MaxTicks == 2      \* clock advances in one behaviour
MaxConcBatch == 1  \* events in one batch when calls overlap
\* Capacity of the dedup cache.  The source sets 500; the model scales the
\* capacity down so that a full cache and an eviction are reachable.
MAX_RECORDER == 2
MaxUris == 3       \* sink specifications handed to BuildAll

\* --------------------------------------------------------------- constants
WARNING == 2
\* recorder.Add(..., time.Now().Add(time.Second*300)), in seconds
WINDOW == 300

Variants == {"dedup", "batch", "perEvent"}
ignoreAlerts == <<"Unhealthy">>

\* ------------------------------------------------------------------ events
Ev(t, ns, n, m, r) ==
    [Type |-> t, Namespace |-> ns, Name |-> n, Message |-> m, Reason |-> r]

Events ==
    { Ev("Warning", "a",  "bc", "m", "r"),
      Ev("Warning", "ab", "c",  "m", "r"),
      Ev("Normal",  "a",  "bc", "m", "r"),
      Ev("Warning", "a",  "bc", "m", "Unhealthy"),
      Ev("Warning", "a",  "bc", "",  "r"),
      Ev("",        "",   "",   "m", "") }

\* ------------------------------------------------------- sink construction
\* A faulty getLevel, the comparison folding case; C14 must not survive it.
getLevel_fold(level) ==
    IF level \in {"Warning", "warning"} THEN 2
    ELSE IF level \in {"Normal", "normal"} THEN 1
    ELSE 0

getLevel(level) ==
    IF level = "Warning" THEN 2
    ELSE IF level = "Normal" THEN 1
    ELSE 0

Uri(host, path, cluster, level) ==
    [Host |-> host, Path |-> path, cluster |-> cluster, level |-> level]

\* A faulty NewAlertmanagerSink: a cluster parameter with an empty value is
\* refused like an absent one; C13 must not survive it.
NewAlertmanagerSink_nonempty(uri) ==
    IF Len(uri.cluster) >= 1 /\ uri.cluster[1] # ""
    THEN [ok |-> TRUE,
          sink |-> [Endpoint |-> IF Len(uri.Host) > 0
                                 THEN uri.Host \o uri.Path ELSE "",
                    Level    |-> IF Len(uri.level) >= 1
                                 THEN getLevel(uri.level[1]) ELSE WARNING,
                    Cluster  |-> uri.cluster[1]]]
    ELSE [ok |-> FALSE]

\* The (sink, error) pair of the source: ok = (err == nil).
NewAlertmanagerSink(uri) ==
    IF Len(uri.cluster) >= 1
    THEN [ok |-> TRUE,
          sink |-> [Endpoint |-> IF Len(uri.Host) > 0
                                 THEN uri.Host \o uri.Path ELSE "",
                    Level    |-> IF Len(uri.level) >= 1
                                 THEN getLevel(uri.level[1]) ELSE WARNING,
                    Cluster  |-> uri.cluster[1]]]
    ELSE [ok |-> FALSE]

SinkIds == {1, 2}

\* The sink specifications the process is started with: sink 1 keeps the
\* default threshold (?cluster=c1), sink 2 is given a level
\* (?cluster=c2&level=Normal or ?cluster=&level=debug).
StartupUris ==
    { <<Uri("am1", "/api", <<"c1">>, <<>>), Uri("am2", "/api", <<o[1]>>, <<o[2]>>)>> :
          o \in { <<"c2", "Normal">>, <<"", "debug">> } }

\* --------------------------------------------------------------- the alert
toUpper(s) ==
    CASE s = "a"  -> "A"
      [] s = "ab" -> "AB"
      [] OTHER    -> s

AlertLabels == {"alertname", "group", "level", "instance", "reason", "cluster"}

\* `labels' maps every label name to <<value>> when the key is present and to
\* <<>> when it is absent.
createAlertFromEvent(v, cluster, event) ==
    IF event.Message = ""
    THEN [ok |-> FALSE]
    ELSE [ok |-> TRUE,
          alert |-> [Labels |->
            [l \in AlertLabels |->
               CASE l = "alertname" -> <<event.Message>>
                 [] l = "group"     -> IF event.Namespace = "" THEN <<>>
                                       ELSE IF v = "perEvent" THEN <<event.Namespace>>
                                       ELSE <<toUpper(event.Namespace)>>
                 [] l = "level"     -> IF event.Type = "" THEN <<>> ELSE <<event.Type>>
                 [] l = "instance"  -> IF event.Name = "" THEN <<>> ELSE <<event.Name>>
                 [] l = "reason"    -> IF event.Reason = "" \/ v = "perEvent" THEN <<>>
                                       ELSE <<event.Reason>>
                 [] l = "cluster"   -> <<cluster>>]]]

\* ------------------------------------------------------------- the filters
\* A faulty isEventLevelDangerous, the comparison turned round; C6 must not
\* survive it.
isEventLevelDangerous_turned(a, level) == getLevel(level) <= a.Level

isEventLevelDangerous(a, level) == getLevel(level) >= a.Level

isIgnoreAlert(event) ==
    \E i \in 1..Len(ignoreAlerts) : event.Reason = ignoreAlerts[i]

generateKey(event) ==
    event.Type \o event.Namespace \o event.Name \o event.Message \o event.Reason

\* ---------------------------------------------------------- the dedup cache
\* recorder is inmem.NewUnlocked(MAX_RECORDER): an LRU list, most recently
\* used entry first, every entry with its own expiry time and no lock.
\* An entry is [key, expiresAt] plus three history fields the code does not
\* have: ev, the event whose Add wrote the entry, by, the sink that did, and
\* at, the time it did.
KeyIdx(rec, k) ==
    IF \E i \in 1..Len(rec) : rec[i].key = k
    THEN CHOOSE i \in 1..Len(rec) : rec[i].key = k
    ELSE 0

Without(rec, i) == SubSeq(rec, 1, i - 1) \o SubSeq(rec, i + 1, Len(rec))

\* recorder.Get: found = present and expiresAt.After(now)
GetFound(rec, k, t) ==
    KeyIdx(rec, k) # 0 /\ rec[KeyIdx(rec, k)].expiresAt > t

\* recorder.Get: a live entry moves to the front, an expired one is removed
GetRec(rec, k, t) ==
    LET i == KeyIdx(rec, k) IN
    IF i = 0 THEN rec
    ELSE IF rec[i].expiresAt > t THEN <<rec[i]>> \o Without(rec, i)
    ELSE Without(rec, i)

\* A faulty AddRec: a new entry is pushed to the front and nothing is
\* dropped; C16 must not survive it.
AddRec_grow(rec, ent) ==
    LET i == KeyIdx(rec, ent.key) IN
    IF i # 0 THEN <<ent>> \o Without(rec, i)
    ELSE <<ent>> \o rec

\* recorder.Add: an existing entry is overwritten and moved to the front; a
\* new one is pushed to the front and the back entry dropped beyond capacity
AddRec(rec, ent) ==
    LET i == KeyIdx(rec, ent.key) IN
    IF i # 0 THEN <<ent>> \o Without(rec, i)
    ELSE LET r == <<ent>> \o rec IN
         IF Len(r) > MAX_RECORDER THEN SubSeq(r, 1, Len(r) - 1) ELSE r

\* ------------------------------------------------------------------- state
VARIABLES
    variant,   \* which build of the package runs
    sinks,     \* SinkIds -> AlertmanagerSink
    now,       \* time.Now(), seconds
    ticks,     \* clock advances so far
    recorder,  \* the package-level dedup cache
    calls,     \* ExportEvents calls started so far
    pc,        \* per sink: "idle", "loop", "add", "returned", "crashed"
    callNo,    \* per sink: number of the call in progress
    size,      \* per sink: len(batch.Events) of the call in progress
    trace,     \* per sink: the events of batch.Events the loop has taken so far
    alerts,    \* per sink: the local slice `alerts'
    src,       \* per sink: for each element of alerts, the event it came from
    out,       \* per sink: the http.Post calls of the call in progress
    fwd,       \* history: [ev, at] of every alert posted by an earlier call
    failed,    \* history: [ev, at, sink] of every alert in a failed post of an earlier call
    uris,      \* BuildAll: the sink specifications it is given
    result,    \* BuildAll: the local slice `result'
    outcome,   \* BuildAll: per specification taken so far, whether Build succeeded
    logged     \* BuildAll: number of glog.Errorf calls

\* The state of SinkFactory.BuildAll.
fvars == <<uris, result, outcome, logged>>

\* The state of the alertmanager sinks.
svars == <<variant, sinks, now, ticks, recorder, calls, pc, callNo, size,
           trace, alerts, src, out, fwd, failed>>

vars == <<variant, sinks, now, ticks, recorder, calls, pc, callNo, size,
          trace, alerts, src, out, fwd, failed, uris, result, outcome, logged>>

Init ==
    /\ variant \in Variants
    /\ \E us \in StartupUris :
          sinks = [s \in SinkIds |-> NewAlertmanagerSink(us[s]).sink]
    /\ now = 0
    /\ ticks = 0
    /\ recorder = <<>>
    /\ calls = 0
    /\ pc = [s \in SinkIds |-> "idle"]
    /\ callNo = [s \in SinkIds |-> 0]
    /\ size = [s \in SinkIds |-> 0]
    /\ trace = [s \in SinkIds |-> <<>>]
    /\ alerts = [s \in SinkIds |-> <<>>]
    /\ src = [s \in SinkIds |-> <<>>]
    /\ out = [s \in SinkIds |-> <<>>]
    /\ fwd = {}
    /\ failed = {}
    /\ uris = <<>>
    /\ result = <<>>
    /\ outcome = <<>>
    /\ logged = 0

\* ----------------------------------------------------------------- actions
\* The clock advances.  It is read on a grid that straddles the expiry of an
\* entry written at time 0: 0, WINDOW - 1, WINDOW, 2*WINDOW - 1, ...
Tick ==
    /\ ticks < MaxTicks
    /\ now' = now + (IF ticks % 2 = 0 THEN WINDOW - 1 ELSE 1)
    /\ ticks' = ticks + 1
    /\ UNCHANGED <<variant, sinks, recorder, calls, pc, callNo, size, trace,
                   alerts, src, out, fwd, failed>>
    /\ UNCHANGED fvars

\* The sources of the alerts the call of sink s has posted so far.
Posted(s) ==
    UNION { { out[s][d].src[j] : j \in 1..Len(out[s][d].src) } : d \in 1..Len(out[s]) }

\* What the call of sink s has posted so far, as the history keeps it.
Delivered(s) ==
    { [ev |-> f.ev, at |-> f.at] : f \in Posted(s) }

\* What the call of sink s has posted in vain so far, as the history keeps it.
Undelivered(s) ==
    UNION { { [ev |-> out[s][d].src[j].ev, at |-> out[s][d].src[j].at, sink |-> s] :
                j \in 1..Len(out[s][d].src) } :
            d \in { c \in 1..Len(out[s]) : ~out[s][c].ok } }

\* ExportEvents(batch) is entered, with a batch of n events: var alerts []*Alert.
\* The loop takes the events of the batch one by one, in order; each is drawn
\* when the loop reaches it.
Start(s, n) ==
    /\ pc[s] = "idle"
    /\ calls < MaxCalls
    /\ calls' = calls + 1
    /\ pc' = [pc EXCEPT ![s] = "loop"]
    /\ callNo' = [callNo EXCEPT ![s] = calls + 1]
    /\ size' = [size EXCEPT ![s] = n]
    /\ trace' = [trace EXCEPT ![s] = <<>>]
    /\ alerts' = [alerts EXCEPT ![s] = <<>>]
    /\ src' = [src EXCEPT ![s] = <<>>]
    /\ out' = [out EXCEPT ![s] = <<>>]
    /\ UNCHANGED <<variant, sinks, now, ticks, recorder, fwd, failed>>
    /\ UNCHANGED fvars

\* The collection cycle hands out one batch at a time: no call overlaps.
StartSerial(s, n) ==
    /\ \A o \in SinkIds : pc[o] = "idle"
    /\ Start(s, n)

\* The trace entry of the event at position i; hit is <<>> or <<entry>>.
Seen(i, e, h) == [i |-> i, ev |-> e, at |-> now, hit |-> h]

Source(s, i, e) == [ev |-> e, at |-> now, call |-> callNo[s], i |-> i, sink |-> s]

\* A faulty CheckDedup: a suppressed sighting writes a fresh expiry into the
\* entry it found, so that sightings keep the window open; C2 must not
\* survive it.
CheckDedup_sliding(s, e) ==
    LET i == Len(trace[s]) + 1
        k == generateKey(e)
    IN
    /\ variant = "dedup"
    /\ pc[s] = "loop"
    /\ i <= size[s]
    /\ IF isEventLevelDangerous(sinks[s], e.Type) /\ ~isIgnoreAlert(e)
       THEN IF GetFound(recorder, k, now)
            THEN /\ recorder' =
                      <<[recorder[KeyIdx(recorder, k)] EXCEPT !.expiresAt = now + WINDOW]>>
                      \o Without(recorder, KeyIdx(recorder, k))
                 /\ trace' = [trace EXCEPT ![s] =
                       Append(@, Seen(i, e, <<recorder[KeyIdx(recorder, k)]>>))]
                 /\ pc' = pc
            ELSE /\ recorder' = GetRec(recorder, k, now)
                 /\ trace' = [trace EXCEPT ![s] = Append(@, Seen(i, e, <<>>))]
                 /\ pc' = [pc EXCEPT ![s] = "add"]
       ELSE /\ trace' = [trace EXCEPT ![s] = Append(@, Seen(i, e, <<>>))]
            /\ UNCHANGED <<recorder, pc>>
    /\ UNCHANGED <<variant, sinks, now, ticks, calls, callNo, size, alerts,
                   src, out, fwd, failed>>
    /\ UNCHANGED fvars

\* A faulty CheckDedup: the fingerprint is recorded before the filters are
\* asked, so that a skipped event leaves an entry; C17 must not survive it.
CheckDedup_eager(s, e) ==
    LET i == Len(trace[s]) + 1
        k == generateKey(e)
    IN
    /\ variant = "dedup"
    /\ pc[s] = "loop"
    /\ i <= size[s]
    /\ IF isEventLevelDangerous(sinks[s], e.Type) /\ ~isIgnoreAlert(e)
       THEN /\ recorder' = GetRec(recorder, k, now)
            /\ IF GetFound(recorder, k, now)
               THEN /\ trace' = [trace EXCEPT ![s] =
                          Append(@, Seen(i, e, <<recorder[KeyIdx(recorder, k)]>>))]
                    /\ pc' = pc
               ELSE /\ trace' = [trace EXCEPT ![s] = Append(@, Seen(i, e, <<>>))]
                    /\ pc' = [pc EXCEPT ![s] = "add"]
       ELSE /\ trace' = [trace EXCEPT ![s] = Append(@, Seen(i, e, <<>>))]
            /\ recorder' = AddRec(recorder,
                                  [key |-> k, expiresAt |-> now + WINDOW,
                                   ev |-> e, by |-> s, at |-> now])
            /\ pc' = pc
    /\ UNCHANGED <<variant, sinks, now, ticks, calls, callNo, size, alerts,
                   src, out, fwd, failed>>
    /\ UNCHANGED fvars

\* One iteration of the loop of the "dedup" build up to and including
\* recorder.Get.
CheckDedup(s, e) ==
    LET i == Len(trace[s]) + 1
        k == generateKey(e)
    IN
    /\ variant = "dedup"
    /\ pc[s] = "loop"
    /\ i <= size[s]
    /\ IF isEventLevelDangerous(sinks[s], e.Type) /\ ~isIgnoreAlert(e)
       THEN /\ recorder' = GetRec(recorder, k, now)
            /\ IF GetFound(recorder, k, now)
               THEN /\ trace' = [trace EXCEPT ![s] =
                          Append(@, Seen(i, e, <<recorder[KeyIdx(recorder, k)]>>))]
                    /\ pc' = pc
               ELSE /\ trace' = [trace EXCEPT ![s] = Append(@, Seen(i, e, <<>>))]
                    /\ pc' = [pc EXCEPT ![s] = "add"]
       ELSE /\ trace' = [trace EXCEPT ![s] = Append(@, Seen(i, e, <<>>))]
            /\ UNCHANGED <<recorder, pc>>
    /\ UNCHANGED <<variant, sinks, now, ticks, calls, callNo, size, alerts,
                   src, out, fwd, failed>>
    /\ UNCHANGED fvars

\* A faulty Add: a build failure returns from ExportEvents instead of going
\* on with the next event; C8 must not survive it.
Add_abort(s) ==
    LET t == trace[s][Len(trace[s])]
        e == t.ev
        k == generateKey(e)
        a == createAlertFromEvent(variant, sinks[s].Cluster, e)
    IN
    /\ pc[s] = "add"
    /\ recorder' = AddRec(recorder,
                          [key |-> k, expiresAt |-> now + WINDOW,
                           ev |-> e, by |-> s, at |-> now])
    /\ IF a.ok
       THEN /\ alerts' = [alerts EXCEPT ![s] = Append(@, a.alert)]
            /\ src' = [src EXCEPT ![s] =
                         Append(@, [ev |-> e, at |-> t.at, call |-> callNo[s],
                                    i |-> t.i, sink |-> s])]
            /\ pc' = [pc EXCEPT ![s] = "loop"]
       ELSE /\ UNCHANGED <<alerts, src>>
            /\ pc' = [pc EXCEPT ![s] = "returned"]
    /\ UNCHANGED <<variant, sinks, now, ticks, calls, callNo, size, trace,
                   out, fwd, failed>>
    /\ UNCHANGED fvars

\* The rest of the iteration: recorder.Add, createAlertFromEvent, append.
Add(s) ==
    LET t == trace[s][Len(trace[s])]
        e == t.ev
        k == generateKey(e)
        a == createAlertFromEvent(variant, sinks[s].Cluster, e)
    IN
    /\ pc[s] = "add"
    /\ recorder' = AddRec(recorder,
                          [key |-> k, expiresAt |-> now + WINDOW,
                           ev |-> e, by |-> s, at |-> now])
    /\ IF a.ok
       THEN /\ alerts' = [alerts EXCEPT ![s] = Append(@, a.alert)]
            /\ src' = [src EXCEPT ![s] =
                         Append(@, [ev |-> e, at |-> t.at, call |-> callNo[s],
                                    i |-> t.i, sink |-> s])]
       ELSE UNCHANGED <<alerts, src>>
    /\ pc' = [pc EXCEPT ![s] = "loop"]
    /\ UNCHANGED <<variant, sinks, now, ticks, calls, callNo, size, trace,
                   out, fwd, failed>>
    /\ UNCHANGED fvars

\* A faulty CheckBatch: the new alert is put in front of the slice instead
\* of behind it; C19 must not survive it.
CheckBatch_prepend(s, e) ==
    LET i == Len(trace[s]) + 1
        a == createAlertFromEvent(variant, sinks[s].Cluster, e)
    IN
    /\ variant = "batch"
    /\ pc[s] = "loop"
    /\ i <= size[s]
    /\ trace' = [trace EXCEPT ![s] = Append(@, Seen(i, e, <<>>))]
    /\ IF isEventLevelDangerous(sinks[s], e.Type) /\ a.ok
       THEN /\ alerts' = [alerts EXCEPT ![s] = <<a.alert>> \o @]
            /\ src' = [src EXCEPT ![s] = <<Source(s, i, e)>> \o @]
       ELSE UNCHANGED <<alerts, src>>
    /\ UNCHANGED <<variant, sinks, now, ticks, recorder, calls, pc, callNo,
                   size, out, fwd, failed>>
    /\ UNCHANGED fvars

\* One iteration of the loop of the "batch" build.
CheckBatch(s, e) ==
    LET i == Len(trace[s]) + 1
        a == createAlertFromEvent(variant, sinks[s].Cluster, e)
    IN
    /\ variant = "batch"
    /\ pc[s] = "loop"
    /\ i <= size[s]
    /\ trace' = [trace EXCEPT ![s] = Append(@, Seen(i, e, <<>>))]
    /\ IF isEventLevelDangerous(sinks[s], e.Type) /\ a.ok
       THEN /\ alerts' = [alerts EXCEPT ![s] = Append(@, a.alert)]
            /\ src' = [src EXCEPT ![s] = Append(@, Source(s, i, e))]
       ELSE UNCHANGED <<alerts, src>>
    /\ UNCHANGED <<variant, sinks, now, ticks, recorder, calls, pc, callNo,
                   size, out, fwd, failed>>
    /\ UNCHANGED fvars

\* One iteration of the loop of the "perEvent" build: a.Send(event) builds
\* the alert and posts it; http.Post succeeds or fails.
CheckPerEvent(s, e) ==
    LET i == Len(trace[s]) + 1
        a == createAlertFromEvent(variant, sinks[s].Cluster, e)
    IN
    /\ variant = "perEvent"
    /\ pc[s] = "loop"
    /\ i <= size[s]
    /\ trace' = [trace EXCEPT ![s] = Append(@, Seen(i, e, <<>>))]
    /\ IF isEventLevelDangerous(sinks[s], e.Type) /\ a.ok
       THEN \E ok \in BOOLEAN :
              /\ out' = [out EXCEPT ![s] =
                           Append(@, [payload |-> <<a.alert>>,
                                      src |-> <<Source(s, i, e)>>, ok |-> ok])]
       ELSE UNCHANGED out
    /\ UNCHANGED <<variant, sinks, now, ticks, recorder, calls, pc, callNo,
                   size, alerts, src, fwd, failed>>
    /\ UNCHANGED fvars

\* A faulty Finish: Send posts the payload a second time when http.Post
\* fails; C10 must not survive it.
Finish_retry(s) ==
    /\ pc[s] = "loop"
    /\ Len(trace[s]) = size[s]
    /\ IF Len(alerts[s]) > 0
       THEN \E ok \in BOOLEAN :
              LET post == [payload |-> alerts[s], src |-> src[s], ok |-> ok] IN
              out' = [out EXCEPT ![s] =
                        IF ok THEN Append(@, post) ELSE Append(Append(@, post), post)]
       ELSE UNCHANGED out
    /\ pc' = [pc EXCEPT ![s] = "returned"]
    /\ UNCHANGED <<variant, sinks, now, ticks, recorder, calls, callNo, size,
                   trace, alerts, src, fwd, failed>>
    /\ UNCHANGED fvars

\* The loop is over: if len(alerts) > 0 { a.Send(alerts) }, and the call
\* returns.  http.Post succeeds or fails; either way Send only logs.
Finish(s) ==
    /\ pc[s] = "loop"
    /\ Len(trace[s]) = size[s]
    /\ IF Len(alerts[s]) > 0
       THEN \E ok \in BOOLEAN :
              /\ out' = [out EXCEPT ![s] =
                           Append(@, [payload |-> alerts[s], src |-> src[s], ok |-> ok])]
       ELSE UNCHANGED out
    /\ pc' = [pc EXCEPT ![s] = "returned"]
    /\ UNCHANGED <<variant, sinks, now, ticks, recorder, calls, callNo, size,
                   trace, alerts, src, fwd, failed>>
    /\ UNCHANGED fvars

\* The caller has the call back; the call's locals are gone and what it
\* posted goes to the history.
Return(s) ==
    /\ pc[s] = "returned"
    /\ pc' = [pc EXCEPT ![s] = "idle"]
    /\ size' = [size EXCEPT ![s] = 0]
    /\ trace' = [trace EXCEPT ![s] = <<>>]
    /\ alerts' = [alerts EXCEPT ![s] = <<>>]
    /\ src' = [src EXCEPT ![s] = <<>>]
    /\ out' = [out EXCEPT ![s] = <<>>]
    /\ fwd' = fwd \cup Delivered(s)
    /\ failed' = failed \cup Undelivered(s)
    /\ UNCHANGED <<variant, sinks, now, ticks, recorder, calls, callNo>>
    /\ UNCHANGED fvars

Step(s) ==
    \/ \E e \in Events : CheckDedup(s, e)
    \/ Add(s)
    \/ \E e \in Events : CheckBatch(s, e)
    \/ \E e \in Events : CheckPerEvent(s, e)
    \/ Finish(s)
    \/ Return(s)

\* Calls one after another, on either sink.
Next ==
    \/ Tick
    \/ \E s \in SinkIds : \E n \in 0..MaxBatch : StartSerial(s, n)
    \/ \E s \in SinkIds : Step(s)

Spec == Init /\ [][Next]_vars

\* recorder has no lock: while one goroutine is about to write it
\* (recorder.Add) and another is about to read or write it, the accesses can
\* overlap, and the Go runtime may then end the process ("concurrent map
\* writes", "concurrent map read and map write").
Race ==
    /\ variant = "dedup"
    /\ \E s1, s2 \in SinkIds :
          /\ s1 # s2
          /\ pc[s1] = "add"
          /\ pc[s2] = "add" \/ (pc[s2] = "loop" /\ Len(trace[s2]) < size[s2])
    /\ pc' = [s \in SinkIds |-> "crashed"]
    /\ UNCHANGED <<variant, sinks, now, ticks, recorder, calls, callNo, size,
                   trace, alerts, src, out, fwd, failed>>
    /\ UNCHANGED fvars

\* One goroutine per sink: calls on different sinks overlap.  Each cache
\* operation is taken as one step, the schedule kindest to the code.
NextConc ==
    \/ Tick
    \/ Race
    \/ \E s \in SinkIds : \E n \in 0..MaxConcBatch : Start(s, n)
    \/ \E s \in SinkIds : Step(s)

SpecConc == Init /\ [][NextConc]_vars

\* ------------------------------------------------------------ the factory
\* flags.Uri: the key before the colon and the url.URL after it.
FlagUri(key, val) == [Key |-> key, Val |-> val]

\* The case labels of the switch in Build.
Backends ==
    {"gcl", "log", "influxdb", "elasticsearch", "kafka", "riemann",
     "honeycomb", "dingtalk", "sls", "alertmanager"}

\* The specifications BuildAll is tried on: alertmanager with and without a
\* host, with the cluster parameter empty and set and the level parameter
\* absent, "Warning", "Normal" and a value getLevel does not know, and
\* without the cluster parameter; the log sink; a key Build does not know.
FlagUris ==
    { FlagUri("alertmanager", Uri(h, "/api", c, l)) :
          h \in {"am", ""},
          c \in {<<"">>, <<"prod">>},
          l \in {<<>>, <<"Warning">>, <<"Normal">>, <<"warning">>} }
    \cup { FlagUri("alertmanager", Uri(h, "/api", <<>>, <<>>)) : h \in {"am", ""} }
    \cup { FlagUri("log", Uri("", "", <<>>, <<>>)),
           FlagUri("nosuch", Uri("", "", <<>>, <<>>)) }

\* Build(uri): the (sink, error) pair, ok = (err == nil).  The constructors
\* of the other backends are outside the repository's alertmanager package;
\* `made' says whether the one called returned a sink or an error.
Build(uri, made) ==
    CASE uri.Key = "alertmanager" -> NewAlertmanagerSink(uri.Val)
      [] uri.Key \in Backends \ {"alertmanager"} ->
            IF made THEN [ok |-> TRUE, sink |-> [Backend |-> uri.Key]]
            ELSE [ok |-> FALSE]
      [] OTHER -> [ok |-> FALSE]

\* BuildAll is entered: result := make([]core.EventSink, 0, len(uris)).
\* factory.go imports events/sinks/alertmanager, the "batch" build; no sink
\* exists yet.
InitBuild ==
    /\ uris \in UNION { [1..n -> FlagUris] : n \in 0..MaxUris }
    /\ result = <<>>
    /\ outcome = <<>>
    /\ logged = 0
    /\ variant = "batch"
    /\ sinks = <<>>
    /\ now = 0
    /\ ticks = 0
    /\ recorder = <<>>
    /\ calls = 0
    /\ pc = [s \in SinkIds |-> "idle"]
    /\ callNo = [s \in SinkIds |-> 0]
    /\ size = [s \in SinkIds |-> 0]
    /\ trace = [s \in SinkIds |-> <<>>]
    /\ alerts = [s \in SinkIds |-> <<>>]
    /\ src = [s \in SinkIds |-> <<>>]
    /\ out = [s \in SinkIds |-> <<>>]
    /\ fwd = {}
    /\ failed = {}

\* A faulty BuildNext: the first specification that fails to build ends the
\* loop; C15 must not survive it.
BuildNext_abort ==
    LET k == Len(outcome) + 1 IN
    /\ k <= Len(uris)
    /\ logged = 0
    /\ \E made \in BOOLEAN :
          LET b == Build(uris[k], made) IN
          /\ outcome' = Append(outcome, b.ok)
          /\ IF b.ok
             THEN /\ result' = Append(result, [of |-> k, sink |-> b.sink])
                  /\ logged' = logged
             ELSE /\ result' = result
                  /\ logged' = logged + 1
    /\ UNCHANGED uris
    /\ UNCHANGED svars

\* One iteration of the loop of BuildAll, on the k-th specification: Build,
\* then glog.Errorf and continue, or append.  A result element carries the
\* position of its specification (`of'), which the code does not keep.
BuildNext ==
    LET k == Len(outcome) + 1 IN
    /\ k <= Len(uris)
    /\ \E made \in BOOLEAN :
          LET b == Build(uris[k], made) IN
          /\ outcome' = Append(outcome, b.ok)
          /\ IF b.ok
             THEN /\ result' = Append(result, [of |-> k, sink |-> b.sink])
                  /\ logged' = logged
             ELSE /\ result' = result
                  /\ logged' = logged + 1
    /\ UNCHANGED uris
    /\ UNCHANGED svars

SpecBuild == InitBuild /\ [][BuildNext]_vars

\* ------------------------------------------------------------- the claims
\* The sources of the alerts of sink s that are built and not yet posted.
Pending(s) == { src[s][j] : j \in 1..Len(src[s]) }

TraceOf(s) == { trace[s][i] : i \in 1..Len(trace[s]) }

\* The severity table as the specification states it.
Score(type) ==
    CASE type = "Warning" -> 2
      [] type = "Normal"  -> 1
      [] OTHER            -> 0

Dist(a, b) == IF a >= b THEN a - b ELSE b - a

\* C1: two events with identical (type, namespace, name, message, reason)
\* processed less than 300 seconds apart, in one batch or in different
\* batches, never both appear in an outbound payload.
C1_OneForwardPerWindow ==
    LET cur == UNION { Posted(s) : s \in SinkIds } IN
    /\ \A f, g \in cur :
          (f # g /\ f.ev = g.ev) => Dist(f.at, g.at) >= 300
    /\ \A f \in cur : \A p \in fwd :
          p.ev = f.ev => Dist(f.at, p.at) >= 300

\* C2: suppression is never permanent.  An event is suppressed only while
\* less than 300 seconds have passed since the insertion made by the admitted
\* occurrence (a suppressed sighting extends nothing); an event that passes
\* the filters and is not suppressed is forwarded if it has a message; and in
\* the build with the cache its insertion starts a new 300-second window.
C2_SuppressionExpires ==
    \A s \in SinkIds :
      /\ \A t \in TraceOf(s) :
            /\ t.hit # <<>> =>
                  /\ t.hit[1].at <= t.at
                  /\ t.at < t.hit[1].at + 300
                  /\ t.hit[1].expiresAt = t.hit[1].at + 300
            /\ ( /\ t.hit = <<>>
                 /\ Score(t.ev.Type) >= sinks[s].Level
                 /\ t.ev.Reason # "Unhealthy"
                 /\ t.ev.Message # ""
                 /\ ~(pc[s] = "add" /\ t.i = Len(trace[s])) )
               => \E f \in Pending(s) \cup Posted(s) : f.i = t.i /\ f.ev = t.ev
      /\ ( /\ variant = "dedup"
           /\ pc[s] \in {"loop", "returned"}
           /\ Len(trace[s]) > 0
           /\ trace[s][Len(trace[s])].hit = <<>>
           /\ Score(trace[s][Len(trace[s])].ev.Type) >= sinks[s].Level
           /\ trace[s][Len(trace[s])].ev.Reason # "Unhealthy" )
         => /\ Len(recorder) > 0
            /\ recorder[1].ev = trace[s][Len(trace[s])].ev
            /\ recorder[1].at >= trace[s][Len(trace[s])].at
            /\ recorder[1].expiresAt = recorder[1].at + 300

\* C2's case: an event admitted at time 0 and suppressed at 299 is admitted
\* again at 300, by the same sink.
C2_Witness ==
    \E s \in SinkIds :
      /\ variant = "dedup"
      /\ pc[s] = "returned"
      /\ \E f \in Posted(s) : f.at = 300 /\ [ev |-> f.ev, at |-> 0] \in fwd
      /\ \E t \in TraceOf(s) : t.hit # <<>> /\ t.at = 299 /\ t.hit[1].at = 0
                               /\ \E f \in Posted(s) : f.ev = t.ev

\* C3: events whose identity tuples differ never suppress one another: the
\* entry that suppresses an event was written for an event with the same
\* (type, namespace, name, message, reason).
C3_DistinctTuplesDistinctKeys ==
    \A s \in SinkIds : \A t \in TraceOf(s) :
        t.hit # <<>> => t.hit[1].ev = t.ev

\* C4: of two events with the same fingerprint processed interleaved by
\* overlapping calls, at most one passes the suppression check: never are
\* both past recorder.Get and before recorder.Add.
C4_AtMostOneAdmits ==
    \A s1, s2 \in SinkIds :
        (s1 # s2 /\ pc[s1] = "add" /\ pc[s2] = "add")
        => generateKey(trace[s1][Len(trace[s1])].ev)
             # generateKey(trace[s2][Len(trace[s2])].ev)

\* C5: what a sink forwards does not depend on what went through another
\* sink: an event is suppressed on sink s only by an entry that sink s wrote.
C5_SinksIndependent ==
    \A s \in SinkIds : \A t \in TraceOf(s) :
        t.hit # <<>> => t.hit[1].by = s

\* C6: no alert in any payload, posted or about to be, comes from an event
\* whose score (Warning 2, Normal 1, other 0) is below the sink's threshold.
C6_BelowThresholdNeverForwarded ==
    \A s \in SinkIds :
      /\ \A f \in Pending(s) \cup Posted(s) : Score(f.ev.Type) >= sinks[s].Level
      /\ \A d \in 1..Len(out[s]) : \A j \in 1..Len(out[s][d].payload) :
            LET l == out[s][d].payload[j].Labels["level"] IN
            Score(IF l = <<>> THEN "" ELSE l[1]) >= sinks[s].Level

\* C6's case: a call has returned whose batch held an event below the
\* threshold and an event at or above it, and the payload has only the latter.
C6_Witness ==
    \E s \in SinkIds :
      /\ pc[s] = "returned"
      /\ \E t \in TraceOf(s) : Score(t.ev.Type) < sinks[s].Level
      /\ Len(out[s]) > 0

\* C7: no event whose reason is on the ignore list ("Unhealthy") produces
\* an alert.
C7_IgnoredNeverForwarded ==
    \A s \in SinkIds : \A f \in Pending(s) \cup Posted(s) :
        f.ev.Reason # "Unhealthy"

\* C8: an event with an empty message is in no payload, and it does not
\* abort the batch: when the call returns the loop has taken every event of
\* the batch, and every event that passed the severity, ignore and dedup
\* checks and has a message is in a payload of the call.
C8_EmptyMessageSkipped ==
    \A s \in SinkIds :
      /\ \A f \in Pending(s) \cup Posted(s) : f.ev.Message # ""
      /\ \A d \in 1..Len(out[s]) : \A j \in 1..Len(out[s][d].payload) :
            out[s][d].payload[j].Labels["alertname"] \notin {<<>>, <<"">>}
      /\ pc[s] = "returned" =>
            /\ Len(trace[s]) = size[s]
            /\ \A t \in TraceOf(s) :
                  ( /\ Score(t.ev.Type) >= sinks[s].Level
                    /\ t.ev.Reason # "Unhealthy"
                    /\ t.hit = <<>>
                    /\ t.ev.Message # "" )
                  => \E f \in Posted(s) : f.i = t.i /\ f.ev = t.ev

\* C8's case: the first event of a batch passed the filters and failed to
\* build, and the second event of the batch was posted.
C8_Witness ==
    \E s \in SinkIds :
      /\ pc[s] = "returned"
      /\ Len(trace[s]) = 2
      /\ trace[s][1].ev.Message = ""
      /\ trace[s][1].hit = <<>>
      /\ Score(trace[s][1].ev.Type) >= sinks[s].Level
      /\ \E f \in Posted(s) : f.i = 2

\* C9: a call makes exactly one delivery, carrying every alert built from
\* the batch, when at least one alert was built, and none otherwise.
C9_OneDeliveryPerBatch ==
    \A s \in SinkIds :
        pc[s] = "returned" =>
            IF Pending(s) \cup Posted(s) = {}
            THEN Len(out[s]) = 0
            ELSE /\ Len(out[s]) = 1
                 /\ { out[s][1].src[j] : j \in 1..Len(out[s][1].src) }
                      = Pending(s) \cup Posted(s)

\* C10: a failed delivery is not retried and nothing is re-queued: no alert
\* is posted twice, the call that failed to deliver returns, and every alert a
\* call posts was built from an event of that call's own batch.
C10_NoRetryNoRequeue ==
    \A s \in SinkIds :
      /\ \A d1, d2 \in 1..Len(out[s]) :
            \A j1 \in 1..Len(out[s][d1].src) : \A j2 \in 1..Len(out[s][d2].src) :
                out[s][d1].src[j1] = out[s][d2].src[j2] => (d1 = d2 /\ j1 = j2)
      /\ \A d \in 1..Len(out[s]) :
            /\ Len(out[s][d].payload) = Len(out[s][d].src)
            /\ \A j \in 1..Len(out[s][d].src) :
                  LET f == out[s][d].src[j] IN
                  /\ f.call = callNo[s]
                  /\ f.sink = s
                  /\ f.i \in 1..Len(trace[s])
                  /\ trace[s][f.i].ev = f.ev
                  /\ out[s][d].payload[j].Labels["alertname"] = <<f.ev.Message>>
                  /\ out[s][d].payload[j].Labels["cluster"] = <<sinks[s].Cluster>>
      /\ (variant # "perEvent" /\ Len(out[s]) > 0) => pc[s] = "returned"

\* C10's case: after a call whose delivery failed, a later call has posted.
C10_Witness ==
    \E s \in SinkIds :
      /\ failed # {}
      /\ pc[s] = "returned"
      /\ Len(out[s]) > 0

\* Every alert the call of sink s has built: those waiting in `alerts' and
\* those in a payload it has posted.
Built(s) ==
    { alerts[s][j] : j \in 1..Len(alerts[s]) }
    \cup UNION { { out[s][d].payload[j] : j \in 1..Len(out[s][d].payload) } :
                 d \in 1..Len(out[s]) }

\* C11: every alert of every sink that was constructed successfully has an
\* `alertname' label with a non-empty value and a `cluster' label with a
\* non-empty value.
C11_AlertnameAndClusterNonEmpty ==
    \A s \in SinkIds : \A a \in Built(s) :
        /\ a.Labels["alertname"] \notin {<<>>, <<"">>}
        /\ a.Labels["cluster"] \notin {<<>>, <<"">>}

\* strings.ToUpper on the namespaces the events use, as the claim reads it.
Upper(s) ==
    CASE s = "a"  -> "A"
      [] s = "ab" -> "AB"
      [] s = ""   -> ""

\* A label the claim expects: absent for an empty field, else the one value.
Opt(v) == IF v = "" THEN <<>> ELSE <<v>>

\* C12: the alert built from an event (with a message) has exactly the labels
\* alertname = message, cluster = the sink's cluster, group = upper-cased
\* namespace, level = type, instance = name, reason = reason, an optional label
\* being present if and only if its field is non-empty, and never empty.
C12_LabelsFromFields ==
    \A s \in SinkIds :
      /\ \A a \in Built(s) : \A l \in AlertLabels :
            l \notin {"alertname", "cluster"} => a.Labels[l] # <<"">>
      /\ \A j \in 1..Len(alerts[s]) :
            LET e == src[s][j].ev IN
            alerts[s][j].Labels =
                [l \in AlertLabels |->
                   CASE l = "alertname" -> <<e.Message>>
                     [] l = "cluster"   -> <<sinks[s].Cluster>>
                     [] l = "group"     -> Opt(Upper(e.Namespace))
                     [] l = "level"     -> Opt(e.Type)
                     [] l = "instance"  -> Opt(e.Name)
                     [] l = "reason"    -> Opt(e.Reason)]
      /\ \A d \in 1..Len(out[s]) : \A j \in 1..Len(out[s][d].payload) :
            LET e == out[s][d].src[j].ev IN
            out[s][d].payload[j].Labels =
                [l \in AlertLabels |->
                   CASE l = "alertname" -> <<e.Message>>
                     [] l = "cluster"   -> <<sinks[s].Cluster>>
                     [] l = "group"     -> Opt(Upper(e.Namespace))
                     [] l = "level"     -> Opt(e.Type)
                     [] l = "instance"  -> Opt(e.Name)
                     [] l = "reason"    -> Opt(e.Reason)]

\* The alertmanager specifications BuildAll has taken so far.
TakenAM == { k \in 1..Len(outcome) : uris[k].Key = "alertmanager" }

\* The sinks in `result' that were built from the k-th specification.
ResultOf(k) == { result[j].sink : j \in { i \in 1..Len(result) : result[i].of = k } }

\* C13 as stated: NewAlertmanagerSink fails, and gives no sink, if and only
\* if the cluster parameter is absent; when it is present the sink has that
\* value as its cluster and host + path as its endpoint.
C13_ConstructionAsStated ==
    \A k \in TakenAM :
        LET u == uris[k].Val IN
        /\ (outcome[k] = FALSE) <=> (u.cluster = <<>>)
        /\ u.cluster = <<>> => ResultOf(k) = {}
        /\ u.cluster # <<>> =>
              /\ Cardinality(ResultOf(k)) = 1
              /\ \A snk \in ResultOf(k) :
                    /\ snk.Cluster = u.cluster[1]
                    /\ snk.Endpoint = u.Host \o u.Path

\* C13 amended: the same, except that the endpoint is host + path when the
\* host is non-empty and the empty string when the host is empty.
C13_ConstructionAmended ==
    \A k \in TakenAM :
        LET u == uris[k].Val IN
        /\ (outcome[k] = FALSE) <=> (u.cluster = <<>>)
        /\ u.cluster = <<>> => ResultOf(k) = {}
        /\ u.cluster # <<>> =>
              /\ Cardinality(ResultOf(k)) = 1
              /\ \A snk \in ResultOf(k) :
                    /\ snk.Cluster = u.cluster[1]
                    /\ snk.Endpoint = IF u.Host = "" THEN "" ELSE u.Host \o u.Path

\* C13's case: BuildAll has refused a specification without a cluster
\* parameter, and has built sinks from one whose cluster parameter is empty
\* and from one that has no host.
C13_Witness ==
    /\ \E k \in TakenAM : uris[k].Val.cluster = <<>> /\ ~outcome[k]
    /\ \E k \in TakenAM : uris[k].Val.cluster = <<"">> /\ outcome[k]
    /\ \E k \in TakenAM : uris[k].Val.Host = "" /\ outcome[k]
                          /\ \E snk \in ResultOf(k) : snk.Endpoint = ""

\* C14: a sink built without a level parameter has threshold 2, with
\* level=Warning 2, with level=Normal 1 and with any other value, "warning"
\* included, 0; and a sink with threshold 0 lets every event type through
\* the severity filter, also a type that is neither Warning nor Normal.
C14_ThresholdFromLevel ==
    \A k \in TakenAM : \A snk \in ResultOf(k) :
        LET l == uris[k].Val.level IN
        /\ snk.Level = CASE l = <<>>          -> 2
                         [] l = <<"Warning">> -> 2
                         [] l = <<"Normal">>  -> 1
                         [] OTHER             -> 0
        /\ snk.Level = 0 =>
              \A type \in {"Warning", "Normal", "", "warning", "Error"} :
                  isEventLevelDangerous(snk, type)

\* C14's case: BuildAll has built a sink from level=warning, and a sink
\* without a level parameter.
C14_Witness ==
    /\ \E k \in TakenAM : \E snk \in ResultOf(k) :
          uris[k].Val.level = <<"warning">> /\ snk.Level = 0
    /\ \E k \in TakenAM : \E snk \in ResultOf(k) :
          uris[k].Val.level = <<>> /\ snk.Level = 2

\* The positions, in order, of the specifications among the first n whose
\* Build succeeded.
RECURSIVE Succeeded(_)
Succeeded(n) ==
    IF n = 0 THEN <<>>
    ELSE IF outcome[n] THEN Append(Succeeded(n - 1), n) ELSE Succeeded(n - 1)

\* C15: BuildAll returns exactly the sinks of the specifications whose Build
\* succeeded, in the order of the specifications; a specification that fails
\* (a key Build does not know, or a constructor that returns an error) is
\* logged and skipped, and the loop goes on to the specifications after it.
C15_BuildAllKeepsSuccesses ==
    /\ Len(outcome) <= Len(uris)
    /\ Len(result) = Len(Succeeded(Len(outcome)))
    /\ \A j \in 1..Len(result) :
          /\ result[j].of = Succeeded(Len(outcome))[j]
          /\ uris[result[j].of].Key \in Backends
          /\ IF uris[result[j].of].Key = "alertmanager"
             THEN /\ uris[result[j].of].Val.cluster # <<>>
                  /\ result[j].sink.Cluster = uris[result[j].of].Val.cluster[1]
             ELSE result[j].sink.Backend = uris[result[j].of].Key
    /\ \A k \in 1..Len(outcome) :
          (uris[k].Key \notin Backends
             \/ (uris[k].Key = "alertmanager" /\ uris[k].Val.cluster = <<>>))
          => ~outcome[k]
    /\ logged = Len(outcome) - Len(result)
    /\ Len(outcome) < Len(uris) => ENABLED BuildNext

\* C15's case: BuildAll has returned two sinks, the second and the third of
\* three specifications, after the first one failed.
C15_Witness ==
    /\ Len(uris) >= 3
    /\ Len(outcome) = Len(uris)
    /\ ~outcome[1] /\ outcome[2] /\ outcome[3]
    /\ uris[2] # uris[3]
    /\ Len(result) = 2
    /\ logged = 1

\* The fingerprints a cache holds.
Keys(rec) == { rec[i].key : i \in 1..Len(rec) }

\* C16: the dedup cache never holds more than MAX_RECORDER entries, and a
\* step that inserts a new fingerprint into a full cache removes a
\* fingerprint that was in it.
C16_CacheBounded ==
    [][ /\ Len(recorder') <= MAX_RECORDER
        /\ Cardinality(Keys(recorder')) = Len(recorder')
        /\ (Len(recorder) = MAX_RECORDER /\ Keys(recorder') \ Keys(recorder) # {})
           => Keys(recorder) \ Keys(recorder') # {} ]_vars

\* C16's case: the cache is full and the fingerprint of an alert forwarded
\* less than 300 seconds ago is no longer in it: a later insertion evicted it.
C16_Witness ==
    /\ variant = "dedup"
    /\ Len(recorder) = MAX_RECORDER
    /\ \E p \in fwd : now < p.at + 300 /\ generateKey(p.ev) \notin Keys(recorder)

\* The event of trace entry t is skipped by sink s: below the threshold, or
\* (in the build that has the list) its reason on the ignore list.
Skipped(s, t) ==
    \/ Score(t.ev.Type) < sinks[s].Level
    \/ (variant = "dedup" /\ t.ev.Reason = "Unhealthy")

\* C17: a step that takes an event which the severity filter or the ignore
\* list skips leaves the dedup cache as it was; so every entry of the cache,
\* and every entry that suppresses an event, was written for an event that
\* qualified on the sink that wrote it.
C17_SkippedLeavesCache ==
    [][ /\ \A s \in SinkIds :
              ( /\ Len(trace'[s]) = Len(trace[s]) + 1
                /\ Skipped(s, trace'[s][Len(trace'[s])]) )
              => /\ recorder' = recorder
                 /\ trace'[s][Len(trace'[s])].hit = <<>>
                 /\ pc'[s] = pc[s]
        /\ \A i \in 1..Len(recorder') :
              /\ Score(recorder'[i].ev.Type) >= sinks[recorder'[i].by].Level
              /\ recorder'[i].ev.Reason # "Unhealthy" ]_vars

\* C17's case: sink 1 has skipped an event below its threshold, and sink 2,
\* whose threshold is lower, has later taken the same event, found no entry
\* and posted it.
C17_Witness ==
    /\ variant = "dedup"
    /\ \E t1 \in TraceOf(1) : \E t2 \in TraceOf(2) :
          /\ Score(t1.ev.Type) < sinks[1].Level
          /\ t2.ev = t1.ev
          /\ t1.at < t2.at
          /\ t2.at < t1.at + 300
          /\ t2.hit = <<>>
          /\ \E f \in Posted(2) : f.ev = t2.ev /\ f.i = t2.i

\* The event of trace entry t passes the severity filter and the ignore list.
Qualifies(s, t) ==
    Score(t.ev.Type) >= sinks[s].Level /\ t.ev.Reason # "Unhealthy"

\* The event at position i of the batch of sink s gave an alert.
Alerted(s, i) == \E f \in Pending(s) \cup Posted(s) : f.i = i

\* C18: the fingerprint is in the cache as soon as the event has passed the
\* severity, ignore and dedup checks, whether or not the alert can be built;
\* and after an occurrence whose build failed (empty message) or whose post
\* failed, an identical event taken by the same sink less than 300 seconds
\* later gives no alert: there is no delivery attempt for it.
C18_FailureStillSuppresses ==
    \A s \in SinkIds :
      /\ ( /\ variant = "dedup"
           /\ pc[s] \in {"loop", "returned"}
           /\ Len(trace[s]) > 0
           /\ trace[s][Len(trace[s])].hit = <<>>
           /\ Qualifies(s, trace[s][Len(trace[s])]) )
         => /\ Len(recorder) > 0
            /\ recorder[1].key = generateKey(trace[s][Len(trace[s])].ev)
            /\ recorder[1].at >= trace[s][Len(trace[s])].at
            /\ recorder[1].expiresAt = recorder[1].at + 300
      /\ \A t1, t2 \in TraceOf(s) :
            ( /\ t1.i < t2.i
              /\ t1.ev = t2.ev
              /\ t2.at < t1.at + 300
              /\ Qualifies(s, t1)
              /\ t1.hit = <<>>
              /\ \/ t1.ev.Message = ""
                 \/ \E d \in 1..Len(out[s]) :
                       /\ ~out[s][d].ok
                       /\ \E j \in 1..Len(out[s][d].src) : out[s][d].src[j].i = t1.i )
            => ~Alerted(s, t2.i)
      /\ \A p \in failed : \A t \in TraceOf(s) :
            ( /\ p.sink = s
              /\ t.ev = p.ev
              /\ p.at <= t.at
              /\ t.at < p.at + 300 )
            => ~Alerted(s, t.i)

\* The alerts als, built from the events that srcs names, are in the order
\* of the batch of sink s, one alert per event.
InBatchOrder(s, als, srcs) ==
    /\ Len(als) = Len(srcs)
    /\ \A j \in 1..Len(srcs) :
          /\ srcs[j].i \in 1..Len(trace[s])
          /\ als[j].Labels["alertname"] = <<trace[s][srcs[j].i].ev.Message>>
          /\ als[j].Labels["level"] = Opt(trace[s][srcs[j].i].ev.Type)
          /\ als[j].Labels["instance"] = Opt(trace[s][srcs[j].i].ev.Name)
    /\ \A j1, j2 \in 1..Len(srcs) : j1 < j2 => srcs[j1].i < srcs[j2].i

\* C19: the alerts of a payload are in the order in which their events stand
\* in the batch, and every forwarded event gives exactly one alert; so are
\* the alerts not yet posted, and the posts of one call among them.
C19_PayloadInBatchOrder ==
    \A s \in SinkIds :
      /\ InBatchOrder(s, alerts[s], src[s])
      /\ \A d \in 1..Len(out[s]) : InBatchOrder(s, out[s][d].payload, out[s][d].src)
      /\ \A d1, d2 \in 1..Len(out[s]) :
            d1 < d2 =>
              \A j1 \in 1..Len(out[s][d1].src) : \A j2 \in 1..Len(out[s][d2].src) :
                  out[s][d1].src[j1].i < out[s][d2].src[j2].i

\* C19's case: a call has returned after one post with two alerts, built
\* from two different events of its batch.
C19_Witness ==
    \E s \in SinkIds :
      /\ pc[s] = "returned"
      /\ Len(out[s]) = 1
      /\ Len(out[s][1].payload) = 2
      /\ out[s][1].payload[1] # out[s][1].payload[2]
      /\ trace[s][1].ev # trace[s][2].ev

====
